---- MODULE Spec2Model ----
(***************************************************************************)
(* sf_quant: the covariance matrix builder of data/covariance_matrix.py,    *)
(* and the frame functions of performance/ and research/.                  *)
(*                                                                         *)
(* The data store (the tables the loaders return) is the state; each       *)
(* public or private function is an action that is applied to its          *)
(* arguments and records what it returned or raised.                       *)
(***************************************************************************)
EXTENDS Integers, Sequences, FiniteSets, TLC

VARIABLES exposures_src,    \* rows of load_exposures_by_date(date_), 'date' dropped
          covariances_src,  \* rows of load_covariances_by_date(date_), 'date' dropped
          assets_src,       \* the asset rows of date_: specific_risk, in_universe
          returns_src,      \* rows of load_assets(..., columns=[date, barrid, return])
          fama_french_src,  \* rows of load_fama_french(...)
          call,             \* the last call: function, argument, locals, return value
          before            \* the call made before the store was last written

store == <<exposures_src, covariances_src, assets_src, returns_src, fama_french_src>>

vars == <<store, call, before>>

-----------------------------------------------------------------------------
(* Bounds *)

NumAssets == 2     \* asset ids known to the data store
NumFactors == 2    \* factor ids of the risk model
MaxLen == 3        \* longest barrids list passed to a call
NumDates == 4      \* trading dates known to the data store: 1..NumDates

-----------------------------------------------------------------------------
(* Identifiers.  Strings are compared by their place in Lexicon, which     *)
(* lists every id of the model in ascending lexicographic order.           *)

AssetNames == <<"A", "B", "C", "D">>

FactorNames == <<"USSLOWL_BETA", "USSLOWL_COUNTRY", "USSLOWL_DIVYILD", "USSLOWL_EARNQLTY">>

Lexicon == AssetNames \o FactorNames

Rank(id) == CHOOSE i \in 1..Len(Lexicon) : Lexicon[i] = id

AssetIds == {AssetNames[i] : i \in 1..NumAssets}

factors == [i \in 1..NumFactors |-> FactorNames[i]]

FactorIds == {factors[i] : i \in 1..NumFactors}

Range(s) == {s[i] : i \in 1..Len(s)}

Reverse(s) == [i \in 1..Len(s) |-> s[Len(s) + 1 - i]]

\* every ordering of the elements of the duplicate-free sequence s
Orderings(s) ==
    {[i \in 1..Len(s) |-> s[p[i]]] :
        p \in {q \in [1..Len(s) -> 1..Len(s)] : \A i, j \in 1..Len(s) : q[i] = q[j] => i = j}}

\* the lists of length 1..MaxLen a caller can pass as barrids
BarridLists == UNION {[1..n -> AssetIds] : n \in 1..MaxLen}

-----------------------------------------------------------------------------
(* Cells.  A cell of a table or of an ndarray is a number (a rational      *)
(* num/den), a polars null, a float NaN or a float infinity.               *)

Num(v) == [kind |-> "num", num |-> v, den |-> 1]
NaN == [kind |-> "nan", num |-> 0, den |-> 1]
Null == [kind |-> "null", num |-> 0, den |-> 1]

\* float infinity of sign s
Inf(s) == [kind |-> "inf", num |-> s, den |-> 1]

\* a boolean cell
Bool(b) == [kind |-> "bool", num |-> IF b THEN 1 ELSE 0, den |-> 1]

IsNum(c) == c.kind = "num"

\* float arithmetic: NaN in, NaN out
FAdd(a, b) ==
    IF IsNum(a) /\ IsNum(b)
    THEN IF a.den = b.den THEN [kind |-> "num", num |-> a.num + b.num, den |-> a.den]
         ELSE [kind |-> "num", num |-> a.num * b.den + b.num * a.den, den |-> a.den * b.den]
    ELSE NaN

FMul(a, b) ==
    IF IsNum(a) /\ IsNum(b)
    THEN [kind |-> "num", num |-> a.num * b.num, den |-> a.den * b.den]
    ELSE NaN

FDiv(a, n) ==
    IF IsNum(a) THEN [kind |-> "num", num |-> a.num, den |-> a.den * n] ELSE NaN

\* == on floats: equal values; NaN equals nothing
FEq(a, b) ==
    /\ IsNum(a) /\ IsNum(b)
    /\ IF a.den = b.den THEN a.num = b.num
       ELSE IF b.den % a.den = 0
            THEN LET q == b.den \div a.den IN b.num % q = 0 /\ b.num \div q = a.num
       ELSE IF a.den % b.den = 0
            THEN LET q == a.den \div b.den IN a.num % q = 0 /\ a.num \div q = b.num
       ELSE a.num * b.den = b.num * a.den

\* < on floats: false where either side is NaN
FLess(a, b) ==
    /\ IsNum(a) /\ IsNum(b)
    /\ IF a.den = b.den THEN a.num < b.num ELSE a.num * b.den < b.num * a.den

-----------------------------------------------------------------------------
(* Exceptions: a function either returns a value or raises.                *)

Raise(e) == [raised |-> e]

IsRaised(x) == "raised" \in DOMAIN x

-----------------------------------------------------------------------------
(* polars.  A DataFrame with one label column (key: 'barrid' or            *)
(* 'factor_1') and float columns: index holds the label column, columns    *)
(* the names of the float columns in order, values the rows.               *)

DataFrame(key, index, columns, values) ==
    [key |-> key, index |-> index, columns |-> columns, values |-> values]

\* positions of s stably sorted by ascending label
RECURSIVE ArgSortFrom(_, _)
ArgSortFrom(s, r) ==
    IF r > Len(Lexicon) THEN <<>>
    ELSE SelectSeq([i \in 1..Len(s) |-> i], LAMBDA i : Rank(s[i]) = r) \o ArgSortFrom(s, r + 1)

ArgSort(s) == ArgSortFrom(s, 1)

\* sorted(list) that leaves the list as it is
sorted_unsorted(s) == s

\* sorted(list) / Series.sort()
sorted(s) == LET p == ArgSort(s) IN [i \in 1..Len(s) |-> s[p[i]]]

\* df in the row order it has
sort_skipped(df) == df

\* df.sort(key)
sort(df) ==
    LET p == ArgSort(df.index)
    IN  DataFrame(df.key, [i \in 1..Len(p) |-> df.index[p[i]]], df.columns,
                  [i \in 1..Len(p) |-> df.values[p[i]]])

\* df.select([key] + cols): the float columns in the order cols
select(df, cols) ==
    LET at(c) == CHOOSE j \in 1..Len(df.columns) : df.columns[j] = c
    IN  DataFrame(df.key, df.index, cols,
                  [i \in 1..Len(df.index) |-> [j \in 1..Len(cols) |-> df.values[i][at(cols[j])]]])

\* df.filter(pl.col(key).is_in(ids))
filter_is_in(df, ids) ==
    LET keep == SelectSeq([i \in 1..Len(df.index) |-> i], LAMBDA i : df.index[i] \in Range(ids))
    IN  DataFrame(df.key, [i \in 1..Len(keep) |-> df.index[keep[i]]], df.columns,
                  [i \in 1..Len(keep) |-> df.values[keep[i]]])

\* df with its nulls left in place
fill_null_skipped(df) == df

\* df.fill_null(0): nulls become 0.0, NaN stays
fill_null(df) ==
    DataFrame(df.key, df.index, df.columns,
              [i \in 1..Len(df.index) |->
                  [j \in 1..Len(df.columns) |->
                      IF df.values[i][j].kind = "null" THEN Num(0) ELSE df.values[i][j]]])

\* df.fill_nan(0): NaN becomes 0.0, nulls stay
fill_nan(df) ==
    IF IsRaised(df) THEN df
    ELSE DataFrame(df.key, df.index, df.columns,
                   [i \in 1..Len(df.index) |->
                       [j \in 1..Len(df.columns) |->
                           IF df.values[i][j].kind = "nan" THEN Num(0) ELSE df.values[i][j]]])

-----------------------------------------------------------------------------
(* numpy.  An ndarray of two dimensions: its shape and its rows.           *)

ndarray(nr, nc, a) == [shape |-> <<nr, nc>>, a |-> a]

\* df.drop(key).to_numpy(): a null becomes NaN
to_numpy(df) ==
    IF IsRaised(df) THEN df
    ELSE
    ndarray(Len(df.index), Len(df.columns),
            [i \in 1..Len(df.index) |->
                [j \in 1..Len(df.columns) |->
                    IF df.values[i][j].kind = "null" THEN NaN ELSE df.values[i][j]]])

\* m.T
T(m) ==
    IF IsRaised(m) THEN m
    ELSE
    ndarray(m.shape[2], m.shape[1],
            [i \in 1..m.shape[2] |-> [j \in 1..m.shape[1] |-> m.a[j][i]]])

\* the sum over k = 1..n of a[i, k] * b[k, j]
RECURSIVE Dot(_, _, _, _, _)
Dot(a, b, i, j, n) ==
    IF n = 0 THEN Num(0) ELSE FAdd(Dot(a, b, i, j, n - 1), FMul(a.a[i][n], b.a[n][j]))

\* a @ b
matmul(a, b) ==
    IF IsRaised(a) THEN a
    ELSE IF IsRaised(b) THEN b
    ELSE IF a.shape[2] # b.shape[1] THEN Raise("ValueError")
    ELSE ndarray(a.shape[1], b.shape[2],
                 [i \in 1..a.shape[1] |->
                    [j \in 1..b.shape[2] |->
                        Dot(a, b, i, j, a.shape[2])]])

\* numpy broadcasting of one dimension: -1 when the two lengths do not broadcast
BroadcastDim(m, n) == IF m = n THEN m ELSE IF m = 1 THEN n ELSE IF n = 1 THEN m ELSE -1

\* a + b
add(a, b) ==
    IF IsRaised(a) THEN a
    ELSE IF IsRaised(b) THEN b
    ELSE LET nr == BroadcastDim(a.shape[1], b.shape[1])
             nc == BroadcastDim(a.shape[2], b.shape[2])
             ia(i) == IF a.shape[1] = 1 THEN 1 ELSE i
             ja(j) == IF a.shape[2] = 1 THEN 1 ELSE j
             ib(i) == IF b.shape[1] = 1 THEN 1 ELSE i
             jb(j) == IF b.shape[2] = 1 THEN 1 ELSE j
         IN  IF nr < 0 \/ nc < 0 THEN Raise("ValueError")
             ELSE ndarray(nr, nc,
                          [i \in 1..nr |-> [j \in 1..nc |-> FAdd(a.a[ia(i)][ja(j)], b.a[ib(i)][jb(j)])]])

\* a, where the division by n is left out
divide_skipped(a, n) == a

\* a / n
divide(a, n) ==
    IF IsRaised(a) THEN a
    ELSE ndarray(a.shape[1], a.shape[2],
                 [i \in 1..a.shape[1] |-> [j \in 1..a.shape[2] |-> FDiv(a.a[i][j], n)]])

\* np.where(np.isnan(m), m, m): the lower triangle is not mirrored
where_isnan_unmirrored(m) == m

\* np.where(np.isnan(m), m.T, m) of a square m (m and m.T of another shape
\* do not broadcast unless one side is 1)
where_isnan(m) ==
    IF IsRaised(m) THEN m
    ELSE IF m.shape[1] # m.shape[2] THEN Raise("ValueError")
    ELSE ndarray(m.shape[1], m.shape[2],
                 [i \in 1..m.shape[1] |->
                    [j \in 1..m.shape[2] |-> IF m.a[i][j].kind = "nan" THEN m.a[j][i] ELSE m.a[i][j]]])

\* np.diag(v): the values are not squared
diag_unsquared(v) ==
    ndarray(Len(v), Len(v),
            [i \in 1..Len(v) |-> [j \in 1..Len(v) |-> IF i = j THEN v[i] ELSE Num(0)]])

\* np.power(np.diag(v), 2)
diag_squared(v) ==
    ndarray(Len(v), Len(v),
            [i \in 1..Len(v) |-> [j \in 1..Len(v) |-> IF i = j THEN FMul(v[i], v[i]) ELSE Num(0)]])

-----------------------------------------------------------------------------
(* The data store: what the three loaders return for the date of the call. *)

load_exposures_by_date == exposures_src

load_covariances_by_date == covariances_src

\* load_assets_by_date(date_, in_universe, columns): the asset rows of the
\* date, only those inside the universe when in_universe, with the float
\* columns asked for
load_assets_by_date(in_universe, columns) ==
    LET at == CHOOSE j \in 1..Len(assets_src.columns) : assets_src.columns[j] = "in_universe"
        keep == SelectSeq([i \in 1..Len(assets_src.index) |-> i],
                          LAMBDA i : ~in_universe \/ assets_src.values[i][at] = Bool(TRUE))
    IN  select(DataFrame("barrid", [i \in 1..Len(keep) |-> assets_src.index[keep[i]]],
                         assets_src.columns,
                         [i \in 1..Len(keep) |-> assets_src.values[keep[i]]]),
               columns)

\* exposure of asset a to factor f in the store's exposure table
ExposureOf(a, f) == LET k == Rank(f) - Len(AssetNames) IN Rank(a) * k + k - 1

\* specific risk (percent volatility) of asset a in the store's asset table
SpecificRiskOf(a) == 10 * Rank(a)

\* the exposure table with a row for each asset of rows and the columns cols,
\* in these orders; the cells (asset, factor) of nulls hold no exposure
ExposureTable(rows, cols, nulls) ==
    DataFrame("barrid", rows, cols,
              [i \in 1..Len(rows) |->
                  [j \in 1..Len(cols) |->
                      IF <<rows[i], cols[j]>> \in nulls THEN Null
                      ELSE Num(ExposureOf(rows[i], cols[j]))]])

\* the asset table: one row per asset of rows, with its specific risk or a
\* null, and whether it is in the universe on the date: not the assets of
\* outside
AssetTable(rows, nulls, outside) ==
    DataFrame("barrid", rows, <<"specific_risk", "in_universe">>,
              [i \in 1..Len(rows) |->
                  <<IF rows[i] \in nulls THEN Null ELSE Num(SpecificRiskOf(rows[i])),
                    Bool(rows[i] \notin outside)>>])

\* the pairs of factors the covariance source stores: row id <= column id
UpperPairs == {p \in FactorIds \X FactorIds : Rank(p[1]) <= Rank(p[2])}

\* the factor covariance table: upper[f1, f2] where f1 <= f2, NaN below the
\* diagonal, in the row order rows and the column order cols
CovarianceTable(rows, cols, upper) ==
    DataFrame("factor_1", rows, cols,
              [i \in 1..Len(rows) |->
                  [j \in 1..Len(cols) |->
                      IF Rank(rows[i]) <= Rank(cols[j]) THEN upper[<<rows[i], cols[j]>>] ELSE NaN]])

\* the ids of set S as a list, ascending
Ascending(S) == SelectSeq(Lexicon, LAMBDA id : id \in S)

\* the trading dates of the store, as day numbers
Dates == 1..NumDates

\* the dates of set S as a list, ascending
AscendingDates(S) == SelectSeq([d \in 1..NumDates |-> d], LAMBDA d : d \in S)

\* return (percent) of asset a on date d in the store
ReturnOf(a, d) == 10 * d + Rank(a)

\* the asset return table: a row per date of dates and asset of universe,
\* by date and barrid
ReturnTable(dates, universe) ==
    LET ds == AscendingDates(dates)
        as == Ascending(universe)
    IN  [i \in 1..(Len(ds) * Len(as)) |->
            LET d == ds[((i - 1) \div Len(as)) + 1]
                a == as[((i - 1) % Len(as)) + 1]
            IN  [date |-> d, barrid |-> a, return |-> Num(ReturnOf(a, d))]]

FamaFrenchColumns == <<"mkt_rf", "smb", "hml", "rmw", "cma", "rf">>

\* realization of the Fama-French column numbered c on date d in the store
FamaFrenchOf(c, d) == 10 * d + c

\* the Fama-French table: a row per date of dates, in the order given
FamaFrenchTable(dates) ==
    [i \in 1..Len(dates) |->
        [date |-> dates[i],
         values |-> [c \in 1..Len(FamaFrenchColumns) |-> Num(FamaFrenchOf(c, dates[i]))]]]

AllReturns == ReturnTable(Dates, AssetIds)
AllFamaFrench == FamaFrenchTable(AscendingDates(Dates))

\* the time series tables of the specifications that do not read them
InitSeries == returns_src = AllReturns /\ fama_french_src = AllFamaFrench

-----------------------------------------------------------------------------
(* data/covariance_matrix.py *)

\* the keys of {id: ... for id in labels}: each label once, in the order of
\* its first occurrence
RECURSIVE dict_keys(_)
dict_keys(labels) ==
    IF labels = <<>> THEN <<>>
    ELSE LET init == dict_keys(SubSeq(labels, 1, Len(labels) - 1))
             last == labels[Len(labels)]
         IN  IF last \in Range(init) THEN init ELSE Append(init, last)

\* package that takes the last column of m where m has no column i
package_clamped(key, labels, m) ==
    IF IsRaised(m) THEN m
    ELSE IF m.shape[2] = 0 THEN Raise("IndexError")
    ELSE IF Len(labels) # m.shape[1] THEN Raise("ShapeError")
    ELSE LET keys == dict_keys(labels)
             at(id) == CHOOSE i \in 1..Len(labels) :
                          /\ labels[i] = id
                          /\ \A j \in 1..Len(labels) : labels[j] = id => j <= i
             col(i) == IF i > m.shape[2] THEN m.shape[2] ELSE i
         IN  DataFrame(key, labels, keys,
                       [r \in 1..Len(labels) |-> [c \in 1..Len(keys) |-> m.a[r][col(at(keys[c]))]]])

\* pl.DataFrame({key: labels, **{id: m[:, i] for i, id in enumerate(labels)}}):
\* m[:, i] raises when m has no column i; a repeated id keeps its last
\* column; the columns must be as long as labels
package(key, labels, m) ==
    IF IsRaised(m) THEN m
    ELSE IF Len(labels) > m.shape[2] THEN Raise("IndexError")
    ELSE IF Len(labels) # m.shape[1] THEN Raise("ShapeError")
    ELSE LET keys == dict_keys(labels)
             at(id) == CHOOSE i \in 1..Len(labels) :
                          /\ labels[i] = id
                          /\ \A j \in 1..Len(labels) : labels[j] = id => j <= i
         IN  DataFrame(key, labels, keys,
                       [r \in 1..Len(labels) |-> [c \in 1..Len(keys) |-> m.a[r][at(keys[c])]]])

\* the join whose rows come out by barrid, ascending
join_left_sorted(barrids, df) ==
    LET at(id) == CHOOSE i \in 1..Len(df.index) : df.index[i] = id
        rows == [i \in 1..Len(barrids) |-> barrids[ArgSort(barrids)[i]]]
    IN  DataFrame("barrid", rows, df.columns,
                  [r \in 1..Len(rows) |->
                      IF rows[r] \in Range(df.index) THEN df.values[at(rows[r])]
                      ELSE [c \in 1..Len(df.columns) |-> Null]])

\* pl.DataFrame({"barrid": barrids}).join(df, on=["barrid"], how="left"): one
\* row per entry of barrids, in that order, null where df has no such barrid
join_left(barrids, df) ==
    LET at(id) == CHOOSE i \in 1..Len(df.index) : df.index[i] = id
    IN  DataFrame("barrid", barrids, df.columns,
                  [r \in 1..Len(barrids) |->
                      IF barrids[r] \in Range(df.index) THEN df.values[at(barrids[r])]
                      ELSE [c \in 1..Len(df.columns) |-> Null]])

_construct_factor_exposure_matrix(barrids) ==
    sort(fill_null(filter_is_in(load_exposures_by_date, barrids)))

_construct_factor_covariance_matrix ==
    LET fc_df == sort(select(load_covariances_by_date, sorted(load_covariances_by_date.columns)))
        utm == to_numpy(fc_df)
        cov_mat == where_isnan(utm)
    IN  fill_nan(package("factor_1", fc_df.index, cov_mat))

\* the stage reading the asset rows with in_universe=True
specific_risk_matrix_of_universe(barrids) ==
    LET sr_df == fill_null(join_left(barrids, load_assets_by_date(TRUE, <<"specific_risk">>)))
        diagonal == diag_squared([i \in 1..Len(barrids) |-> sr_df.values[i][1]])
    IN  package("barrid", barrids, diagonal)

_construct_specific_risk_matrix(barrids) ==
    LET sr_df == fill_null(join_left(barrids, load_assets_by_date(FALSE, <<"specific_risk">>)))
        diagonal == diag_squared([i \in 1..Len(barrids) |-> sr_df.values[i][1]])
    IN  package("barrid", barrids, diagonal)

\* construct_covariance_matrix that first drops the repeated ids of barrids
construct_deduplicated(barrids) ==
    LET ids == dict_keys(barrids)
        exposures_matrix == to_numpy(_construct_factor_exposure_matrix(ids))
        factor_matrix == to_numpy(_construct_factor_covariance_matrix)
        idio_risk_matrix == to_numpy(_construct_specific_risk_matrix(ids))
        covariance_matrix ==
            add(matmul(matmul(exposures_matrix, factor_matrix), T(exposures_matrix)),
                idio_risk_matrix)
    IN  package("barrid", ids, divide(covariance_matrix, 100 * 100))

construct_covariance_matrix(barrids) ==
    LET exposures_matrix == to_numpy(_construct_factor_exposure_matrix(barrids))
        factor_matrix == to_numpy(_construct_factor_covariance_matrix)
        idio_risk_matrix == to_numpy(_construct_specific_risk_matrix(barrids))
        covariance_matrix ==
            add(matmul(matmul(exposures_matrix, factor_matrix), T(exposures_matrix)),
                idio_risk_matrix)
    IN  package("barrid", barrids, divide(covariance_matrix, 100 * 100))

-----------------------------------------------------------------------------
(* The state machine *)

NoCall == [fn |-> "none", barrids |-> <<>>, ret |-> Raise("none")]

\* factor covariances of the store: variances 2500, 5000, ... and a
\* covariance for every pair
FullCovariances ==
    [p \in UpperPairs |->
        LET k == Rank(p[1]) - Len(AssetNames)
            l == Rank(p[2]) - Len(AssetNames)
        IN  IF k = l THEN Num(2500 * k) ELSE Num(100 * (k + l))]

\* variance 10000 for every factor, every covariance missing (NaN)
SparseCovariances == [p \in UpperPairs |-> IF p[1] = p[2] THEN Num(10000) ELSE NaN]

\* a store in which every asset has exposures and a specific risk
AllExposures == ExposureTable(Ascending(AssetIds), factors, {})
AllCovariances == CovarianceTable(factors, factors, FullCovariances)
AllAssets == AssetTable(Ascending(AssetIds), {}, {})

\* the stores of Spec: any set of assets with exposures, the factor columns
\* in any order, any set of assets with a specific risk
InitStore ==
    /\ \E present \in SUBSET AssetIds : \E cols \in Orderings(factors) :
          exposures_src = ExposureTable(Reverse(Ascending(present)), cols, {})
    /\ \E upper \in {FullCovariances, SparseCovariances} :
          \E order \in {factors, Reverse(factors)} :
             covariances_src = CovarianceTable(order, order, upper)
    /\ \E present \in SUBSET AssetIds :
          assets_src = AssetTable(Ascending(present), {}, {})

Init == InitStore /\ InitSeries /\ call = NoCall /\ before = NoCall

\* one call is made against the store
CallConstructCovarianceMatrix ==
    /\ call = NoCall
    /\ \E barrids \in IF before = NoCall THEN BarridLists ELSE {before.barrids} :
          call' = [fn |-> "construct_covariance_matrix", barrids |-> barrids,
                   ret |-> construct_covariance_matrix(barrids)]
    /\ UNCHANGED <<store, before>>

Next == CallConstructCovarianceMatrix

Spec == Init /\ [][Next]_vars

-----------------------------------------------------------------------------
(* Two calls with the same list, the asset table written in between: any   *)
(* set of assets with exposures, any set of assets with a specific risk.   *)

\* the asset table df in which the specific risk of asset a is sr
WithSpecificRisk(df, a, sr) ==
    [df EXCEPT !.values = [i \in 1..Len(df.index) |-> IF df.index[i] = a THEN [@[i] EXCEPT ![1] = sr] ELSE @[i]]]

\* the store is written between two calls with the same list: the specific
\* risk of one requested asset rises
WriteSpecificRisk ==
    /\ call.fn = "construct_covariance_matrix"
    /\ before = NoCall
    /\ \E a \in Range(call.barrids) \cap Range(assets_src.index) :
          /\ assets_src' = WithSpecificRisk(assets_src, a,
                                            FAdd(Num(SpecificRiskOf(a)), Num(5)))
          /\ before' = [fn |-> call.fn, barrids |-> call.barrids, ret |-> call.ret,
                        asset |-> a]
    /\ call' = NoCall
    /\ UNCHANGED <<exposures_src, covariances_src, returns_src, fama_french_src>>

InitTwoCalls ==
    /\ \E present \in SUBSET AssetIds :
          exposures_src = ExposureTable(Reverse(Ascending(present)), factors, {})
    /\ covariances_src = AllCovariances
    /\ \E present \in SUBSET AssetIds :
          assets_src = AssetTable(Ascending(present), {}, {})
    /\ InitSeries
    /\ call = NoCall
    /\ before = NoCall

NextTwoCalls == CallConstructCovarianceMatrix \/ WriteSpecificRisk

SpecTwoCalls == InitTwoCalls /\ [][NextTwoCalls]_vars

-----------------------------------------------------------------------------
(* The exposure stage alone, against any exposure table: any set of assets *)
(* with a row, rows and columns in any order, at most one exposure null.   *)

InitExposure ==
    /\ \E present \in SUBSET AssetIds :
          \E rows \in Orderings(Ascending(present)) : \E cols \in Orderings(factors) :
             \E nulls \in {{}} \cup {{c} : c \in present \X FactorIds} :
                exposures_src = ExposureTable(rows, cols, nulls)
    /\ covariances_src = AllCovariances
    /\ assets_src = AllAssets
    /\ InitSeries
    /\ call = NoCall
    /\ before = NoCall

CallFactorExposureMatrix ==
    /\ call = NoCall
    /\ \E barrids \in BarridLists :
          call' = [fn |-> "_construct_factor_exposure_matrix", barrids |-> barrids,
                   ret |-> _construct_factor_exposure_matrix(barrids)]
    /\ UNCHANGED <<store, before>>

NextExposure == CallFactorExposureMatrix

SpecExposure == InitExposure /\ [][NextExposure]_vars

-----------------------------------------------------------------------------
(* The factor covariance stage alone, against any upper-triangular table:  *)
(* every stored cell a number or NaN, rows and columns in any order.       *)

CovarianceCells == {NaN, Num(2500), Num(300)}

InitCovariance ==
    /\ exposures_src = AllExposures
    /\ \E upper \in [UpperPairs -> CovarianceCells] :
          \E rows \in Orderings(factors) : \E cols \in Orderings(factors) :
             covariances_src = CovarianceTable(rows, cols, upper)
    /\ assets_src = AllAssets
    /\ InitSeries
    /\ call = NoCall
    /\ before = NoCall

CallFactorCovarianceMatrix ==
    /\ call = NoCall
    /\ call' = [fn |-> "_construct_factor_covariance_matrix", barrids |-> <<>>,
                ret |-> _construct_factor_covariance_matrix]
    /\ UNCHANGED <<store, before>>

NextCovariance == CallFactorCovarianceMatrix

SpecCovariance == InitCovariance /\ [][NextCovariance]_vars

-----------------------------------------------------------------------------
(* The specific risk stage alone, against any asset table: any set of      *)
(* assets with a row, rows in any order, any of them with a null value,    *)
(* any of them outside the universe.                                       *)

InitSpecificRisk ==
    /\ exposures_src = AllExposures
    /\ covariances_src = AllCovariances
    /\ \E present \in SUBSET AssetIds :
          \E rows \in Orderings(Ascending(present)) :
             \E nulls \in SUBSET present : \E outside \in SUBSET present :
                assets_src = AssetTable(rows, nulls, outside)
    /\ InitSeries
    /\ call = NoCall
    /\ before = NoCall

CallSpecificRiskMatrix ==
    /\ call = NoCall
    /\ \E barrids \in BarridLists :
          call' = [fn |-> "_construct_specific_risk_matrix", barrids |-> barrids,
                   ret |-> _construct_specific_risk_matrix(barrids)]
    /\ UNCHANGED <<store, before>>

NextSpecificRisk == CallSpecificRiskMatrix

SpecSpecificRisk == InitSpecificRisk /\ [][NextSpecificRisk]_vars

-----------------------------------------------------------------------------
(* The functions of performance/ and research/ are called with frames; the *)
(* store is the one in which every asset has every value.                  *)

InitAnyCall ==
    /\ exposures_src = AllExposures
    /\ covariances_src = AllCovariances
    /\ assets_src = AllAssets
    /\ InitSeries
    /\ call = NoCall
    /\ before = NoCall

-----------------------------------------------------------------------------
(* Long frames: a list of rows, each a record with a date, a barrid and     *)
(* value columns; (date, barrid) is the key of a row.                      *)

\* place of a row in the order of sort(["barrid", "date"])
BarridDateKey(row) == Rank(row.barrid) * (NumDates + 1) + row.date

\* place of a row in the order of sort("date", "barrid")
DateBarridKey(row) == row.date * (Len(Lexicon) + 1) + Rank(row.barrid)

\* df.sort(["barrid", "date"])
sort_barrid_date(df) ==
    [i \in 1..Len(df) |->
        df[CHOOSE r \in 1..Len(df) :
              Cardinality({q \in 1..Len(df) : BarridDateKey(df[q]) < BarridDateKey(df[r])}) = i - 1]]

\* df.sort("date", "barrid")
sort_date_barrid(df) ==
    [i \in 1..Len(df) |->
        df[CHOOSE r \in 1..Len(df) :
              Cardinality({q \in 1..Len(df) : DateBarridKey(df[q]) < DateBarridKey(df[r])}) = i - 1]]

\* is_finite(): false for NaN and for an infinity; null for a null, which
\* filter drops
IsFinite(c) == IsNum(c)

-----------------------------------------------------------------------------
(* performance/ics.py *)

\* alpha of asset a on date d in the alphas a caller passes
AlphaOf(a, d) == 3 * Rank(a) - 2 * d

\* an alphas frame: a row per date of dates and asset of universe
AlphaTable(dates, universe) ==
    [i \in 1..Len(ReturnTable(dates, universe)) |->
        LET row == ReturnTable(dates, universe)[i]
        IN  [date |-> row.date, barrid |-> row.barrid,
             alpha |-> Num(AlphaOf(row.barrid, row.date))]]

\* the values of a frame that are null or not finite
MissingCells == {Null, NaN, Inf(1)}

\* the frame df with the cell c in column col of its row of asset a on date d
WithCell(df, a, d, col, c) ==
    [i \in 1..Len(df) |->
        IF df[i].barrid = a /\ df[i].date = d THEN [df[i] EXCEPT ![col] = c] ELSE df[i]]

\* frames with every value finite: a row per date and asset of any set of
\* dates and any set of assets
AlphaFrames == {AlphaTable(dates, universe) : dates \in SUBSET Dates, universe \in SUBSET AssetIds}

ReturnFrames == {ReturnTable(dates, universe) : dates \in SUBSET Dates, universe \in SUBSET AssetIds}

\* frames with a row per date and asset, at most one value null or not finite
AlphaFramesMissing ==
    {AlphaTable(Dates, AssetIds)}
    \cup {WithCell(AlphaTable(Dates, AssetIds), a, d, "alpha", c) :
             a \in AssetIds, d \in Dates, c \in MissingCells}

ReturnFramesMissing ==
    {ReturnTable(Dates, AssetIds)}
    \cup {WithCell(ReturnTable(Dates, AssetIds), a, d, "return", c) :
             a \in AssetIds, d \in Dates, c \in MissingCells}

\* the frames a caller passes as alphas and rets
FramePairs ==
    (AlphaFrames \X ReturnFrames) \cup (AlphaFramesMissing \X ReturnFramesMissing)

Methods == {"rank", "pearson", "Pearson", "RANK", "spearman", "SPEARMAN"}

\* method, not lower-cased
lower_unchanged(method) == method

\* method.lower(), for the method names of the model
lower(method) ==
    IF method = "Pearson" THEN "pearson"
    ELSE IF method = "RANK" THEN "rank"
    ELSE IF method = "SPEARMAN" THEN "spearman"
    ELSE method

\* alphas.sort(["barrid", "date"]) with alpha.shift(1).over("barrid") as
\* alpha_lag: the alpha of the asset's row before, null on its first row
a_lag(alphas) ==
    LET df == sort_barrid_date(alphas)
    IN  [i \in 1..Len(df) |->
            [date |-> df[i].date, barrid |-> df[i].barrid,
             alpha_lag |-> IF i > 1 /\ df[i - 1].barrid = df[i].barrid
                           THEN df[i - 1].alpha ELSE Null]]

\* a_lag.join(rets, on=["date", "barrid"], how="inner"): the rows of a_lag
\* with a row of rets of the same date and barrid, with its return
join_inner(left, rets) ==
    LET matches(row) == {q \in 1..Len(rets) :
                           rets[q].date = row.date /\ rets[q].barrid = row.barrid}
        kept == SelectSeq(left, LAMBDA row : matches(row) # {})
    IN  [i \in 1..Len(kept) |->
            [date |-> kept[i].date, barrid |-> kept[i].barrid,
             alpha_lag |-> kept[i].alpha_lag,
             return |-> rets[CHOOSE q \in matches(kept[i]) : TRUE].return]]

\* filter(alpha_lag.is_not_null() & alpha_lag.is_finite())
filter_finite_alpha_lag(df) ==
    SelectSeq(df, LAMBDA row : row.alpha_lag.kind # "null" /\ IsFinite(row.alpha_lag))

\* filter(alpha_lag.is_not_null() & alpha_lag.is_finite() & return.is_finite())
filter_finite(df) ==
    SelectSeq(df, LAMBDA row : row.alpha_lag.kind # "null" /\ IsFinite(row.alpha_lag)
                               /\ IsFinite(row["return"]))

\* rank(method="average") of value v among the values vs of its date:
\* (the number below v) + (the number equal to v + 1) / 2
rank_average(v, vs) ==
    LET below == Cardinality({q \in 1..Len(vs) : FLess(vs[q], v)})
        equal == Cardinality({q \in 1..Len(vs) : FEq(vs[q], v)})
    IN  [kind |-> "num", num |-> 2 * below + equal + 1, den |-> 2]

\* group_by("date").agg(len as n, corr as ic): a row per date of df; the
\* rows come in no order; ic is the correlation of the two lists it holds
group_by_date_corr(df, m) ==
    {LET rows == SelectSeq(df, LAMBDA row : row.date = d)
         xs == [i \in 1..Len(rows) |-> rows[i].alpha_lag]
         ys == [i \in 1..Len(rows) |-> rows[i]["return"]]
     IN  [date |-> d,
          ic |-> IF m = "pearson" THEN [corr |-> <<xs, ys>>]
                 ELSE [corr |-> <<[i \in 1..Len(xs) |-> rank_average(xs[i], xs)],
                                  [i \in 1..Len(ys) |-> rank_average(ys[i], ys)]>>],
          n |-> Len(rows)] : d \in {df[i].date : i \in 1..Len(df)}}

generate_alpha_ics(alphas, rets, method) ==
    LET df == filter_finite(join_inner(a_lag(alphas), rets))
        m == lower(method)
    IN  IF m \notin {"pearson", "rank"} THEN Raise("ValueError")
        ELSE [rows |-> group_by_date_corr(df, m)]

InitICs == InitAnyCall

CallGenerateAlphaIcs ==
    /\ call = NoCall
    /\ \E frames \in FramePairs : \E method \in Methods :
          call' = [fn |-> "generate_alpha_ics", barrids |-> <<>>,
                   args |-> [alphas |-> frames[1], rets |-> frames[2], method |-> method],
                   ret |-> generate_alpha_ics(frames[1], frames[2], method)]
    /\ UNCHANGED <<store, before>>

NextICs == CallGenerateAlphaIcs

SpecICs == InitICs /\ [][NextICs]_vars

-----------------------------------------------------------------------------
(* performance/returns.py *)

\* load_assets(start, end, in_universe=True, columns=[date, barrid, return]):
\* the rows of the store dated start..end
load_assets(start, end) == SelectSeq(returns_src, LAMBDA row : row.date \in start..end)

\* weight of asset a on date d in the weights a caller passes, in tenths:
\* 0.5, 0.6, 0.4, 0.5, ... for the first asset
WeightOf(a, d) ==
    [kind |-> "num", num |-> <<5, 6, 4, 5>>[((d - 1) % 4) + 1] + Rank(a) - 1, den |-> 10]

\* a weights frame: a row per (date, asset) of keys, by date and barrid
WeightTable(keys) ==
    LET all == ReturnTable(Dates, AssetIds)
        kept == SelectSeq(all, LAMBDA row : <<row.date, row.barrid>> \in keys)
    IN  [i \in 1..Len(kept) |->
            [date |-> kept[i].date, barrid |-> kept[i].barrid,
             weight |-> WeightOf(kept[i].barrid, kept[i].date)]]

\* the frames a caller passes as weights
WeightFrames == {WeightTable(keys) : keys \in (SUBSET (Dates \X AssetIds)) \ {{}}}

\* the dates of the rows of df
DatesOf(df) == {df[i].date : i \in 1..Len(df)}

min(S) == CHOOSE d \in S : \A e \in S : d <= e

max(S) == CHOOSE d \in S : \A e \in S : e <= d

\* truediv(n), mul(w): null in, null out
truediv(c, n) == IF c.kind = "null" THEN Null ELSE FDiv(c, n)

mul(c, w) == IF c.kind = "null" \/ w.kind = "null" THEN Null ELSE FMul(c, w)

\* sum(): the nulls are skipped; 0 where nothing is left
RECURSIVE sum(_)
sum(cells) ==
    IF cells = <<>> THEN Num(0)
    ELSE LET head == cells[1]
             rest == sum(Tail(cells))
         IN  IF head.kind = "null" THEN rest ELSE FAdd(head, rest)

\* returns.sort("barrid", "date") with return.shift(-1).over("barrid") as
\* fwd_return: the return of the asset's next row, null on its last row
with_fwd_return(returns) ==
    LET df == sort_barrid_date(returns)
    IN  [i \in 1..Len(df) |->
            [date |-> df[i].date, barrid |-> df[i].barrid, return |-> df[i]["return"],
             fwd_return |-> IF i < Len(df) /\ df[i + 1].barrid = df[i].barrid
                            THEN df[i + 1]["return"] ELSE Null]]

\* weights.join(returns, on=["date", "barrid"], how="left") with return and
\* fwd_return divided by 100: nulls where returns has no such row
join_returns(weights, returns) ==
    [i \in 1..Len(weights) |->
        LET matches == {q \in 1..Len(returns) : /\ returns[q].date = weights[i].date
                                                 /\ returns[q].barrid = weights[i].barrid}
            found == returns[CHOOSE q \in matches : TRUE]
        IN  [date |-> weights[i].date, barrid |-> weights[i].barrid,
             weight |-> weights[i].weight,
             return |-> IF matches = {} THEN Null ELSE truediv(found["return"], 100),
             fwd_return |-> IF matches = {} THEN Null ELSE truediv(found.fwd_return, 100)]]

\* joined.group_by("date").agg(sum of fwd_return * weight, sum of
\* return * weight).sort("date")
result(joined) ==
    LET dates == AscendingDates(DatesOf(joined))
    IN  [k \in 1..Len(dates) |->
            LET rows == SelectSeq(joined, LAMBDA row : row.date = dates[k])
            IN  [date |-> dates[k],
                 fwd_return |-> sum([i \in 1..Len(rows) |-> mul(rows[i].fwd_return, rows[i].weight)]),
                 return |-> sum([i \in 1..Len(rows) |-> mul(rows[i]["return"], rows[i].weight)])]]

\* PortfolioRetSchema.validate(result): date and return hold no null
validate(df) ==
    IF \E i \in 1..Len(df) : df[i]["return"].kind = "null"
    THEN Raise("ValidationError") ELSE [rows |-> df]

generate_returns_from_weights(weights) ==
    LET start == min(DatesOf(weights))
        end == max(DatesOf(weights))
        returns == with_fwd_return(load_assets(start, end))
    IN  validate(result(join_returns(weights, returns)))

\* the stores of SpecReturns: any set of assets in the universe
InitReturns ==
    /\ exposures_src = AllExposures
    /\ covariances_src = AllCovariances
    /\ assets_src = AllAssets
    /\ \E universe \in SUBSET AssetIds : returns_src = ReturnTable(Dates, universe)
    /\ fama_french_src = AllFamaFrench
    /\ call = NoCall
    /\ before = NoCall

CallGenerateReturnsFromWeights ==
    /\ call = NoCall
    /\ \E weights \in WeightFrames :
          call' = [fn |-> "generate_returns_from_weights", barrids |-> <<>>,
                   args |-> [weights |-> weights],
                   ret |-> generate_returns_from_weights(weights)]
    /\ UNCHANGED <<store, before>>

NextReturns == CallGenerateReturnsFromWeights

SpecReturns == InitReturns /\ [][NextReturns]_vars

-----------------------------------------------------------------------------
(* performance/turnover.py *)

\* the window of rolling_mean
RollingWindow == 252

\* abs()
abs(c) == IF IsNum(c) /\ c.num < 0 THEN [c EXCEPT !.num = 0 - c.num] ELSE c

\* weights.sort("date", "barrid") with (weight - weight.shift(1)).over("barrid")
\* as diff: the change since the asset's row before, null on its first row
with_diff(weights) ==
    LET df == sort_date_barrid(weights)
        before_row(i) == {q \in 1..(i - 1) : df[q].barrid = df[i].barrid}
    IN  [i \in 1..Len(df) |->
            [date |-> df[i].date, barrid |-> df[i].barrid, weight |-> df[i].weight,
             diff |-> IF before_row(i) = {} THEN Null
                      ELSE FAdd(df[i].weight,
                                FMul(Num(-1), df[max(before_row(i))].weight))]]

\* group_by("date").agg(diff.abs().sum()).sort("date")
two_sided_turnover(df) ==
    LET dates == AscendingDates(DatesOf(df))
    IN  [k \in 1..Len(dates) |->
            LET rows == SelectSeq(df, LAMBDA row : row.date = dates[k])
            IN  [date |-> dates[k],
                 two_sided_turnover |-> sum([i \in 1..Len(rows) |-> abs(rows[i].diff)])]]

\* rolling_mean(window): the mean of the last window values, null on the
\* rows that have fewer than window values up to them
rolling_mean(values, window) ==
    [i \in 1..Len(values) |->
        IF i < window THEN Null
        ELSE FDiv(sum(SubSeq(values, i - window + 1, i)), window)]

_compute_turnover(weights) ==
    LET df == two_sided_turnover(with_diff(weights))
        rolled == rolling_mean([i \in 1..Len(df) |-> df[i].two_sided_turnover], RollingWindow)
    IN  [i \in 1..Len(df) |-> [date |-> df[i].date, two_sided_turnover |-> rolled[i]]]

\* mean(), min(), max() of a column: null for a column without values
mean(values) == IF values = <<>> THEN Null ELSE FDiv(sum(values), Len(values))

min_of(values) ==
    IF values = <<>> THEN Null
    ELSE values[CHOOSE i \in 1..Len(values) : \A j \in 1..Len(values) : ~FLess(values[j], values[i])]

max_of(values) ==
    IF values = <<>> THEN Null
    ELSE values[CHOOSE i \in 1..Len(values) : \A j \in 1..Len(values) : ~FLess(values[i], values[j])]

\* round(4) of a value that is not negative: the nearest multiple of 1/10000
round4(c) ==
    IF IsNum(c)
    THEN [kind |-> "num", num |-> (2 * c.num * 10000 + c.den) \div (2 * c.den), den |-> 10000]
    ELSE c

get_turnover_stats(weights) ==
    LET turnover == _compute_turnover(weights)
        kept == SelectSeq(turnover, LAMBDA row : row.two_sided_turnover.kind # "null")
        values == [i \in 1..Len(kept) |-> kept[i].two_sided_turnover]
    IN  [name \in {"Mean Turnover", "Min Turnover", "Max Turnover"} |->
            round4(IF name = "Mean Turnover" THEN mean(values)
                   ELSE IF name = "Min Turnover" THEN min_of(values)
                   ELSE max_of(values))]

InitTurnover == InitAnyCall

CallGetTurnoverStats ==
    /\ call = NoCall
    /\ \E weights \in WeightFrames :
          call' = [fn |-> "get_turnover_stats", barrids |-> <<>>,
                   args |-> [weights |-> weights],
                   ret |-> get_turnover_stats(weights)]
    /\ UNCHANGED <<store, before>>

NextTurnover == CallGetTurnoverStats

SpecTurnover == InitTurnover /\ [][NextTurnover]_vars

-----------------------------------------------------------------------------
(* research/quantile_portfolios.py: beta_scale_ports.  The frame has a row *)
(* per date and one column per name; the cells are returns in units of     *)
(* 0.005.                                                                  *)

Sign(n) == IF n < 0 THEN -1 ELSE IF n > 0 THEN 1 ELSE 0

\* a / b on expressions: null where a side is null; x / 0 is an infinity,
\* 0 / 0 is NaN
quotient(a, b) ==
    IF a.kind = "null" \/ b.kind = "null" THEN Null
    ELSE IF ~IsNum(a) \/ ~IsNum(b) THEN NaN
    ELSE IF b.num = 0 THEN (IF a.num = 0 THEN NaN ELSE Inf(Sign(a.num)))
    ELSE [kind |-> "num", num |-> Sign(b.num) * a.num * b.den,
          den |-> Sign(b.num) * b.num * a.den]

\* a * b on expressions: null where a side is null; 0 * infinity is NaN
product(a, b) ==
    IF a.kind = "null" \/ b.kind = "null" THEN Null
    ELSE IF a.kind = "nan" \/ b.kind = "nan" THEN NaN
    ELSE IF a.kind = "inf" \/ b.kind = "inf"
         THEN (IF Sign(a.num) * Sign(b.num) = 0 THEN NaN ELSE Inf(Sign(a.num) * Sign(b.num)))
    ELSE FMul(a, b)

\* clip(lo, hi): nulls and NaN pass
clip(c, lo, hi) ==
    IF c.kind = "inf" THEN (IF c.num < 0 THEN Num(lo) ELSE Num(hi))
    ELSE IF ~IsNum(c) THEN c
    ELSE IF FLess(c, Num(lo)) THEN Num(lo)
    ELSE IF FLess(Num(hi), c) THEN Num(hi)
    ELSE c

\* fill_nan(1.0) of one cell
fill_nan_one(c) == IF c.kind = "nan" THEN Num(1) ELSE c

\* the column named col of df, as a list
column(df, col) ==
    [t \in 1..Len(df.index) |->
        df.values[t][CHOOSE j \in 1..Len(df.columns) : df.columns[j] = col]]

\* pl.rolling_cov(x, y, window_size): the sample covariance of the last
\* window rows, null on the rows that have fewer
rolling_cov(x, y, window) ==
    [t \in 1..Len(x) |->
        IF t < window THEN Null
        ELSE LET xs == SubSeq(x, t - window + 1, t)
                 ys == SubSeq(y, t - window + 1, t)
                 sum_xy == sum([i \in 1..window |-> FMul(xs[i], ys[i])])
             IN  FDiv(FAdd(FMul(Num(window), sum_xy),
                           FMul(Num(-1), FMul(sum(xs), sum(ys)))),
                      window * (window - 1))]

\* rolling_var(window_size)
rolling_var(y, window) == rolling_cov(y, y, window)

\* col.startswith("p_"), for the column names of the model
startswith_p(col) == col \in {"p_1", "p_10"}

\* col * (target_beta / (rolling_cov(col, market) / bmk_var).clip(0, 5.0).fill_nan(1.0))
beta_scaled(df, col, market_col, target_beta, lookback) ==
    LET x == column(df, col)
        bmk_var == rolling_var(column(df, market_col), lookback)
        cov == rolling_cov(x, column(df, market_col), lookback)
    IN  [t \in 1..Len(x) |->
            product(x[t],
                    quotient(target_beta,
                             fill_nan_one(clip(quotient(cov[t], bmk_var[t]), 0, 5))))]

beta_scale_ports(df, market_col, target_beta, lookback) ==
    LET port_cols == SelectSeq(df.columns, LAMBDA col : startswith_p(col))
    IN  DataFrame("date", df.index, df.columns,
                  [t \in 1..Len(df.index) |->
                      [j \in 1..Len(df.columns) |->
                          IF df.columns[j] \in Range(port_cols)
                          THEN beta_scaled(df, df.columns[j], market_col, target_beta, lookback)[t]
                          ELSE df.values[t][j]]])

\* the columns a caller's frame can have besides date, in the frame's order
PortfolioColumns == <<"p_1", "p_10", "spread", "bmk_return">>

\* the return in column col on date t: constant over the dates, or moving
PortfolioReturn(col, t, moving) ==
    LET level == IF col = "p_1" THEN 2 ELSE IF col = "p_10" THEN 4
                 ELSE IF col = "spread" THEN 2 ELSE 3
        step == IF col = "p_1" THEN 1 ELSE IF col = "p_10" THEN -2
                ELSE IF col = "spread" THEN 3 ELSE 1
    IN  IF moving THEN Num(level + step * t * t) ELSE Num(level)

\* the frames a caller passes: the first n dates, the market column and any
\* of the other columns
PortfolioFrames ==
    {DataFrame("date", [t \in 1..n |-> t],
               SelectSeq(PortfolioColumns, LAMBDA col : col \in cols \cup {"bmk_return"}),
               [t \in 1..n |->
                   LET names == SelectSeq(PortfolioColumns,
                                          LAMBDA col : col \in cols \cup {"bmk_return"})
                   IN  [j \in 1..Len(names) |-> PortfolioReturn(names[j], t, moving)]]) :
        n \in 1..NumDates, cols \in SUBSET {"p_1", "p_10", "spread"}, moving \in BOOLEAN}

TargetBetas == {Num(1), [kind |-> "num", num |-> 1, den |-> 2]}

Lookbacks == {2, 3}

InitBetaScale == InitAnyCall

CallBetaScalePorts ==
    /\ call = NoCall
    /\ \E df \in PortfolioFrames : \E target_beta \in TargetBetas : \E lookback \in Lookbacks :
          call' = [fn |-> "beta_scale_ports", barrids |-> <<>>,
                   args |-> [df |-> df, market_col |-> "bmk_return",
                             target_beta |-> target_beta, lookback |-> lookback],
                   ret |-> beta_scale_ports(df, "bmk_return", target_beta, lookback)]
    /\ UNCHANGED <<store, before>>

NextBetaScale == CallBetaScalePorts

SpecBetaScale == InitBetaScale /\ [][NextBetaScale]_vars

-----------------------------------------------------------------------------
(* research/ff_regression.py *)

\* load_fama_french(start, end): the rows of the store dated start..end
load_fama_french(start, end) == SelectSeq(fama_french_src, LAMBDA row : row.date \in start..end)

\* portfolio return on date d in the frame a caller passes
PortfolioReturnOn(d) == 7 * d - 10

\* a portfolio_returns frame: a row per date of dates, ascending, the
\* return null on the dates of nulls
PortfolioReturns(dates, nulls) ==
    LET ds == AscendingDates(dates)
    IN  [i \in 1..Len(ds) |->
            [date |-> ds[i],
             return |-> IF ds[i] \in nulls THEN Null ELSE Num(PortfolioReturnOn(ds[i]))]]

\* the frames a caller passes as portfolio_returns
PortfolioReturnFrames ==
    {PortfolioReturns(dates, nulls) :
        dates \in (SUBSET Dates) \ {{}}, nulls \in {{}} \cup {{d} : d \in Dates}}

\* df.sort("date")
sort_date(df) ==
    [i \in 1..Len(df) |->
        df[CHOOSE r \in 1..Len(df) :
              Cardinality({q \in 1..Len(df) : df[q].date < df[r].date}) = i - 1]]

\* with_columns(pl.exclude("date").shift(-1)): every row takes the values of
\* the row after it, the last row nulls
shift_back(df) ==
    [i \in 1..Len(df) |->
        [date |-> df[i].date,
         values |-> IF i < Len(df) THEN df[i + 1].values
                    ELSE [c \in 1..Len(FamaFrenchColumns) |-> Null]]]

\* a - b on expressions: null where a side is null
sub(a, b) ==
    IF a.kind = "null" \/ b.kind = "null" THEN Null ELSE FAdd(a, FMul(Num(-1), b))

\* portfolio_returns.join(ff5, on="date", how="left").drop_nulls("return")
\* with return - rf as return_rf, then every column but date times 100
regression_data(portfolio_returns, ff5) ==
    LET joined == [i \in 1..Len(portfolio_returns) |->
                      LET matches == {q \in 1..Len(ff5) : ff5[q].date = portfolio_returns[i].date}
                      IN  [date |-> portfolio_returns[i].date,
                           return |-> portfolio_returns[i]["return"],
                           values |-> IF matches = {}
                                      THEN [c \in 1..Len(FamaFrenchColumns) |-> Null]
                                      ELSE ff5[CHOOSE q \in matches : TRUE].values]]
        kept == SelectSeq(joined, LAMBDA row : row["return"].kind # "null")
        rf == CHOOSE c \in 1..Len(FamaFrenchColumns) : FamaFrenchColumns[c] = "rf"
    IN  [i \in 1..Len(kept) |->
            [date |-> kept[i].date,
             return |-> mul(kept[i]["return"], Num(100)),
             values |-> [c \in 1..Len(FamaFrenchColumns) |-> mul(kept[i].values[c], Num(100))],
             return_rf |-> mul(sub(kept[i]["return"], kept[i].values[rf]), Num(100))]]

\* the fit of return_rf ~ mkt_rf + smb + hml + rmw + cma over regression_data;
\* the coefficients and t statistics statsmodels computes are real numbers
\* that stay a function of the data
run_ff_regression(portfolio_returns) ==
    LET start == min(DatesOf(portfolio_returns))
        end == max(DatesOf(portfolio_returns))
        ff5 == shift_back(sort_date(load_fama_french(start, end)))
    IN  [ols |-> "return_rf ~ mkt_rf + smb + hml + rmw + cma",
         data |-> regression_data(portfolio_returns, ff5)]

\* the stores of SpecFamaFrench: factor rows for any set of dates, ascending
\* or descending
InitFamaFrench ==
    /\ exposures_src = AllExposures
    /\ covariances_src = AllCovariances
    /\ assets_src = AllAssets
    /\ returns_src = AllReturns
    /\ \E present \in SUBSET Dates :
          \E rows \in {AscendingDates(present), Reverse(AscendingDates(present))} :
             fama_french_src = FamaFrenchTable(rows)
    /\ call = NoCall
    /\ before = NoCall

CallRunFFRegression ==
    /\ call = NoCall
    /\ \E portfolio_returns \in PortfolioReturnFrames :
          call' = [fn |-> "run_ff_regression", barrids |-> <<>>,
                   args |-> [portfolio_returns |-> portfolio_returns],
                   ret |-> run_ff_regression(portfolio_returns)]
    /\ UNCHANGED <<store, before>>

NextFamaFrench == CallRunFFRegression

SpecFamaFrench == InitFamaFrench /\ [][NextFamaFrench]_vars

-----------------------------------------------------------------------------
(* research/__init__.py: the import of the package.  A module is the set   *)
(* of names its top-level statements bind.                                 *)

\* research/quantile_portfolios.py
quantile_portfolios ==
    {"logging", "pl", "SignalSchema", "load_benchmark_returns", "logger",
     "check_nulls_in_data", "generate_quantile_ports", "vol_scale_ports",
     "beta_scale_ports"}

\* research/ff_regression.py
ff_regression ==
    {"pl", "smf", "load_fama_french", "PortfolioRetSchema",
     "run_ff_regression", "run_quantile_ff_regression"}

\* research/signal_analysis.py
signal_analysis == {"pl", "np", "plt", "signal_stats", "signal_distribution"}

\* the submodules of the package by name
submodules ==
    [quantile_portfolios |-> quantile_portfolios,
     ff_regression |-> ff_regression,
     signal_analysis |-> signal_analysis]

\* the from-import statements of __init__.py, in order
import_statements ==
    <<[module |-> "quantile_portfolios",
       names |-> <<"generate_quantile_ports", "vol_scale_ports", "beta_scale_ports">>],
      [module |-> "ff_regression",
       names |-> <<"run_ff_regression", "run_quantile_ff_regression">>],
      [module |-> "signal_analysis",
       names |-> <<"get_signal_stats", "get_signal_distribution">>]>>

__all__ ==
    <<"generate_quantile_ports", "vol_scale_ports", "beta_scale_ports",
      "run_ff_regression", "run_quantile_ff_regression",
      "get_signal_stats", "get_signal_distribution">>

\* from .module import names, in a namespace: binds the submodule and the
\* names; ImportError when the submodule does not bind one of them
import_from(namespace, statement) ==
    IF Range(statement.names) \subseteq submodules[statement.module]
    THEN [names |-> namespace.names \cup {statement.module} \cup Range(statement.names)]
    ELSE Raise("ImportError")

\* the namespace of the package after the first n statements of __init__.py,
\* or what one of them raised
RECURSIVE research(_)
research(n) ==
    IF n = 0 THEN [names |-> {}]
    ELSE IF IsRaised(research(n - 1)) THEN research(n - 1)
    ELSE import_from(research(n - 1), import_statements[n])

\* from sf_quant.research import names: runs __init__.py, then looks the
\* names up in the package
from_research_import(names) ==
    LET namespace == research(Len(import_statements))
    IN  IF IsRaised(namespace) THEN namespace
        ELSE IF names \subseteq namespace.names
        THEN [names |-> names]
        ELSE Raise("ImportError")

InitResearch == InitAnyCall

\* a client imports any of the names the package lists
CallFromResearchImport ==
    /\ call = NoCall
    /\ \E names \in SUBSET Range(__all__) :
          call' = [fn |-> "from sf_quant.research import", barrids |-> <<>>,
                   args |-> [names |-> names],
                   ret |-> from_research_import(names)]
    /\ UNCHANGED <<store, before>>

NextResearch == CallFromResearchImport

SpecResearch == InitResearch /\ [][NextResearch]_vars

-----------------------------------------------------------------------------
(* What the store holds, looked up by asset id and factor id *)

HasRow(df, id) == id \in Range(df.index)

CellAt(df, r, c) ==
    df.values[CHOOSE i \in 1..Len(df.index) : df.index[i] = r]
             [CHOOSE j \in 1..Len(df.columns) : df.columns[j] = c]

NoDuplicates(s) == \A i, j \in 1..Len(s) : s[i] = s[j] => i = j

IsAscending(s) == \A i \in 1..Len(s) - 1 : Rank(s[i]) < Rank(s[i + 1])

\* X[a, k]: the stored exposure, 0 where there is none
StoredExposure(a, k) ==
    IF HasRow(exposures_src, a) /\ IsNum(CellAt(exposures_src, a, k))
    THEN CellAt(exposures_src, a, k) ELSE Num(0)

\* F[k, l]: the stored one of (k, l), (l, k), 0 where both are NaN
StoredCovariance(k, l) ==
    IF IsNum(CellAt(covariances_src, k, l)) THEN CellAt(covariances_src, k, l)
    ELSE IF IsNum(CellAt(covariances_src, l, k)) THEN CellAt(covariances_src, l, k)
    ELSE Num(0)

\* sr_a: the stored specific risk, 0 where there is none
StoredSpecificRisk(a) ==
    IF HasRow(assets_src, a) /\ IsNum(CellAt(assets_src, a, "specific_risk"))
    THEN CellAt(assets_src, a, "specific_risk") ELSE Num(0)

\* the sum of X[a,k] F[k,l] X[b,l] over the first n pairs (k, l) of factors
RECURSIVE Systematic(_, _, _)
Systematic(a, b, n) ==
    IF n = 0 THEN Num(0)
    ELSE LET k == factors[((n - 1) \div NumFactors) + 1]
             l == factors[((n - 1) % NumFactors) + 1]
         IN  FAdd(Systematic(a, b, n - 1),
                  FMul(FMul(StoredExposure(a, k), StoredCovariance(k, l)), StoredExposure(b, l)))

\* (sum over k, l of X[a,k] F[k,l] X[b,l], plus sr_a^2 when a = b) / 10000
ExpectedCovariance(a, b) ==
    LET specific == IF a = b THEN FMul(StoredSpecificRisk(a), StoredSpecificRisk(a)) ELSE Num(0)
    IN  FDiv(FAdd(Systematic(a, b, NumFactors * NumFactors), specific), 10000)

Constructed == call.fn = "construct_covariance_matrix"

Returned == ~IsRaised(call.ret)

-----------------------------------------------------------------------------
(* Claims *)

\* C1: for a duplicate-free asset list in any order whose assets all have an
\* exposure row and a specific-risk row, construct_covariance_matrix returns,
\* at the row labelled a and the column labelled b,
\* (sum over k,l of X[a,k] F[k,l] X[b,l], plus sr_a^2 when a = b) / 10000.
C1_ValuesByLabel ==
    (/\ Constructed
     /\ NoDuplicates(call.barrids)
     /\ \A a \in Range(call.barrids) : HasRow(exposures_src, a) /\ HasRow(assets_src, a))
    => /\ Returned
       /\ \A i \in 1..Len(call.ret.index) : \A j \in 1..Len(call.ret.columns) :
             FEq(call.ret.values[i][j], ExpectedCovariance(call.ret.index[i], call.ret.columns[j]))

\* C2: for a duplicate-free asset list in any order, the row labels and the
\* column labels of the returned matrix are the asset list in ascending order.
C2_LabelsAscending ==
    (Constructed /\ Returned /\ NoDuplicates(call.barrids))
    => /\ call.ret.index = Ascending(Range(call.barrids))
       /\ call.ret.columns = Ascending(Range(call.barrids))

\* C3: the k-th column of the exposure matrix and the k-th row and column of
\* the factor covariance matrix carry the same factor id, in ascending
\* order, whatever column order the exposure source returns.
C3_FactorOrderShared ==
    Constructed
    => LET exposures == _construct_factor_exposure_matrix(call.barrids)
           covariances == _construct_factor_covariance_matrix
       IN  /\ exposures.columns = covariances.index
           /\ exposures.columns = covariances.columns
           /\ IsAscending(exposures.columns)

\* C4: a requested asset with no exposure row still gets a row of the
\* exposure matrix, all 0.0, so the matrix has one row per requested asset.
C4_ZeroRowForMissingAsset ==
    call.fn = "_construct_factor_exposure_matrix"
    => /\ Returned
       /\ Len(call.ret.index) = Cardinality(Range(call.barrids))
       /\ \A a \in Range(call.barrids) :
             /\ HasRow(call.ret, a)
             /\ ~HasRow(exposures_src, a)
                => \A f \in FactorIds : CellAt(call.ret, a, f) = Num(0)

\* C5: whenever two stage outputs list the assets (or the factors) in a
\* different order, construct_covariance_matrix raises and returns no matrix.
C5_MisalignmentRaises ==
    LET exposures == _construct_factor_exposure_matrix(call.barrids)
        covariances == _construct_factor_covariance_matrix
        risks == _construct_specific_risk_matrix(call.barrids)
    IN  (/\ Constructed
         /\ \/ /\ Range(exposures.index) = Range(risks.index)
               /\ exposures.index # risks.index
            \/ /\ Range(exposures.columns) = Range(covariances.index)
               /\ exposures.columns # covariances.index)
        => ~Returned

\* C6: whenever the exposure row count differs from the specific-risk
\* dimension, or the exposure column count from the factor-covariance
\* dimension, construct_covariance_matrix raises and returns no matrix.
C6_ShapeMismatchRaises ==
    LET exposures_matrix == to_numpy(_construct_factor_exposure_matrix(call.barrids))
        factor_matrix == to_numpy(_construct_factor_covariance_matrix)
        idio_risk_matrix == to_numpy(_construct_specific_risk_matrix(call.barrids))
    IN  (/\ Constructed
         /\ \/ exposures_matrix.shape[1] # idio_risk_matrix.shape[1]
            \/ exposures_matrix.shape[1] # idio_risk_matrix.shape[2]
            \/ exposures_matrix.shape[2] # factor_matrix.shape[1])
        => ~Returned

\* C7: the matrix returned for a non-empty asset list has exactly as many
\* rows and as many asset columns as the list has distinct ids.
C7_ShapeIsDistinctCount ==
    (Constructed /\ Returned)
    => /\ Len(call.ret.index) = Cardinality(Range(call.barrids))
       /\ Len(call.ret.columns) = Cardinality(Range(call.barrids))
       /\ \A i \in 1..Len(call.ret.index) :
             Len(call.ret.values[i]) = Cardinality(Range(call.barrids))

C7_Witness ==
    /\ Constructed /\ Returned
    /\ Len(call.barrids) >= 2
    /\ Len(call.ret.index) = Len(call.barrids)

\* C8: the matrix M returned from an upper-triangular factor covariance
\* source has M[i][j] = M[j][i] at all positions i, j.
C8_Symmetric ==
    (Constructed /\ Returned)
    => \A i \in 1..Len(call.ret.index) : \A j \in 1..Len(call.ret.index) :
          /\ j <= Len(call.ret.values[i])
          /\ i <= Len(call.ret.values[j])
          /\ FEq(call.ret.values[i][j], call.ret.values[j][i])

C8_Witness ==
    /\ Constructed /\ Returned
    /\ Len(call.ret.index) >= 2
    /\ \E f \in FactorIds : \E g \in FactorIds :
          Rank(f) < Rank(g) /\ CellAt(covariances_src, g, f) = NaN
                            /\ IsNum(CellAt(covariances_src, f, g))
    /\ call.ret.values[1][2].num # 0
    /\ call.ret.values[1][1].num # call.ret.values[2][2].num

\* C9: from a source holding the upper triangle of a symmetric matrix and
\* NaN elsewhere, _construct_factor_covariance_matrix returns, for each pair
\* (f1, f2), whichever of source[f1][f2], source[f2][f1] is not NaN, and 0.0
\* when both are NaN; the result is symmetric.
C9_MirrorFill ==
    call.fn = "_construct_factor_covariance_matrix"
    => /\ Returned
       /\ \A f1 \in FactorIds : \A f2 \in FactorIds :
             /\ CellAt(call.ret, f1, f2) = StoredCovariance(f1, f2)
             /\ CellAt(call.ret, f1, f2) = CellAt(call.ret, f2, f1)

C9_Witness ==
    /\ call.fn = "_construct_factor_covariance_matrix"
    /\ Returned
    /\ ~IsAscending(covariances_src.index)
    /\ covariances_src.index # covariances_src.columns
    /\ \E f \in FactorIds : \E g \in FactorIds :
          /\ CellAt(covariances_src, g, f) = NaN
          /\ IsNum(CellAt(covariances_src, f, g))
          /\ CellAt(call.ret, g, f) = CellAt(covariances_src, f, g)
    /\ \E f \in FactorIds :
          CellAt(covariances_src, f, f) = NaN /\ CellAt(call.ret, f, f) = Num(0)

\* C10: when the asset list holds a repeated id, construct_covariance_matrix
\* raises and returns no matrix.
C10_DuplicatesRaise ==
    (Constructed /\ ~NoDuplicates(call.barrids)) => ~Returned

C10_Witness ==
    /\ Constructed
    /\ ~NoDuplicates(call.barrids)
    /\ ~Returned
    /\ call.ret.raised = "IndexError"

-----------------------------------------------------------------------------
(* The outputs of the three stages for the call's asset list, as arrays *)

StageExposures == to_numpy(_construct_factor_exposure_matrix(call.barrids))

StageFactorCovariance == to_numpy(_construct_factor_covariance_matrix)

StageSpecificRisk == to_numpy(_construct_specific_risk_matrix(call.barrids))

\* the sum of X[r][k] F[k][l] X[s][l] over the first n pairs (k, l) of columns
\* of the exposure rows X and the factor rows F
RECURSIVE Quadratic(_, _, _, _, _)
Quadratic(X, F, r, s, n) ==
    IF n = 0 THEN Num(0)
    ELSE LET k == ((n - 1) \div NumFactors) + 1
             l == ((n - 1) % NumFactors) + 1
         IN  FAdd(Quadratic(X, F, r, s, n - 1), FMul(FMul(X[r][k], F[k][l]), X[s][l]))

\* entry (i, j) of X F X^T + D in the units of the stages; a one-row X F X^T
\* is the same number in every entry
UnscaledEntry(X, F, D, i, j) ==
    LET row(n) == IF Len(X) = 1 THEN 1 ELSE n
    IN  FAdd(Quadratic(X, F, row(i), row(j), NumFactors * NumFactors), D[i][j])

\* C11: every entry of the matrix returned by construct_covariance_matrix
\* is the entry of X F X^T + D at the same position, X, F and D being the
\* outputs of the three stages in percent units, divided by 10000 once.
C11_ScaledOnce ==
    (Constructed /\ Returned) =>
        \A X \in {StageExposures.a} : \A F \in {StageFactorCovariance.a} :
        \A D \in {StageSpecificRisk.a} :
            \A i, j \in 1..Len(call.barrids) :
                FEq(call.ret.values[i][j], FDiv(UnscaledEntry(X, F, D, i, j), 10000))

\* two assets with exposures 1 and 3, factor variances 10000, no
\* covariances, no specific risk for the first: 100000 becomes 10
C11_Witness ==
    /\ Constructed /\ Returned
    /\ Len(call.barrids) = 2
    /\ StageExposures.shape[1] = 2
    /\ FEq(UnscaledEntry(StageExposures.a, StageFactorCovariance.a, StageSpecificRisk.a, 1, 1),
           Num(100000))
    /\ FEq(call.ret.values[1][1], Num(10))
    /\ ~FEq(StageSpecificRisk.a[2][2], Num(0))

-----------------------------------------------------------------------------
(* Two calls, the second after the specific risk of before.asset was raised *)

Recalled == before # NoCall

\* C12: when the store changes only in that one requested asset a has a
\* larger specific risk, the two matrices returned for the same list agree
\* in every entry except the one labelled (a, a), which is strictly larger
\* in the second.
C12_OnlyOwnVarianceRises ==
    (Recalled /\ Constructed /\ Returned) =>
        /\ ~IsRaised(before.ret)
        /\ call.ret.index = before.ret.index
        /\ call.ret.columns = before.ret.columns
        /\ \A i \in 1..Len(call.ret.index) : \A j \in 1..Len(call.ret.columns) :
              IF call.ret.index[i] = before.asset /\ call.ret.columns[j] = before.asset
              THEN FLess(before.ret.values[i][j], call.ret.values[i][j])
              ELSE FEq(before.ret.values[i][j], call.ret.values[i][j])

\* the raised asset is not the first of a two-asset list that is not ascending
C12_Witness ==
    /\ Recalled /\ Constructed /\ Returned
    /\ Len(call.barrids) = 2
    /\ ~IsAscending(call.barrids)
    /\ call.barrids[2] = before.asset
    /\ FLess(before.ret.values[2][2], call.ret.values[2][2])
    /\ FEq(before.ret.values[1][1], call.ret.values[1][1])

-----------------------------------------------------------------------------
(* The specific risk stage *)

SpecificRiskBuilt == call.fn = "_construct_specific_risk_matrix"

\* sr_a ** 2, sr_a the stored specific risk of asset a, 0 where the store
\* has no row or a null for a
SpecificVariance(a) == FMul(StoredSpecificRisk(a), StoredSpecificRisk(a))

C15_StagesShareAscendingOrder ==
    (/\ Constructed
     /\ NoDuplicates(call.barrids)
     /\ \A a \in Range(call.barrids) : HasRow(exposures_src, a)) =>
        LET exposures == _construct_factor_exposure_matrix(call.barrids)
            specific == _construct_specific_risk_matrix(call.barrids)
            ascending == Ascending(Range(call.barrids))
        IN  /\ exposures.index = ascending
            /\ specific.index = ascending
            /\ specific.columns = ascending

-----------------------------------------------------------------------------
(* performance/ics.py: generate_alpha_ics *)

ICsGenerated == call.fn = "generate_alpha_ics"

\* asset a has an alpha on the day before d and a return on d
HasPair(a, d) ==
    /\ \E i \in 1..Len(call.args.alphas) :
          /\ call.args.alphas[i].barrid = a
          /\ call.args.alphas[i].date = d - 1
          /\ IsFinite(call.args.alphas[i].alpha)
    /\ \E i \in 1..Len(call.args.rets) :
          /\ call.args.rets[i].barrid = a
          /\ call.args.rets[i].date = d
          /\ IsFinite(call.args.rets[i]["return"])

\* C16: generate_alpha_ics pairs, for each asset, the alpha of the previous
\* day with the return of the current day, and its output has one row for
\* every date on which at least one asset has such a pair, n counting the
\* paired assets.
C16_RowForEveryPairedDate ==
    (ICsGenerated /\ Returned) =>
        \A d \in Dates :
            LET paired == {a \in AssetIds : HasPair(a, d)}
            IN  paired # {} =>
                    /\ Cardinality({row \in call.ret.rows : row.date = d}) = 1
                    /\ \A row \in call.ret.rows : row.date = d => row.n = Cardinality(paired)

-----------------------------------------------------------------------------
(* performance/returns.py: generate_returns_from_weights *)

ReturnsGenerated == call.fn = "generate_returns_from_weights"

\* the weights rows of date d
HeldOn(d) == SelectSeq(call.args.weights, LAMBDA row : row.date = d)

\* the stored return of asset a on date d, as a fraction
StoredReturn(a, d) ==
    LET found == SelectSeq(returns_src, LAMBDA row : row.barrid = a /\ row.date = d)
    IN  FDiv(found[1]["return"], 100)

\* the sum over the first n assets held on d of weight * return on date next
RECURSIVE WeightedReturn(_, _, _)
WeightedReturn(d, next, n) ==
    IF n = 0 THEN Num(0)
    ELSE FAdd(WeightedReturn(d, next, n - 1),
              FMul(HeldOn(d)[n].weight, StoredReturn(HeldOn(d)[n].barrid, next)))

\* C17: generate_returns_from_weights returns one row per distinct date of
\* weights, ascending, and on every date d, the last date of weights
\* included, fwd_return is the weight-weighted sum of the held assets'
\* returns on the next trading date after d (stated where the store has
\* that date and a return for every held asset).
C17_ForwardReturnOnEveryDate ==
    (/\ ReturnsGenerated
     /\ \A i \in 1..Len(call.args.weights) :
           \E q \in 1..Len(returns_src) : returns_src[q].barrid = call.args.weights[i].barrid) =>
        /\ Returned
        /\ [i \in 1..Len(call.ret.rows) |-> call.ret.rows[i].date]
              = AscendingDates(DatesOf(call.args.weights))
        /\ \A i \in 1..Len(call.ret.rows) :
              LET d == call.ret.rows[i].date
              IN  d + 1 \in Dates =>
                     FEq(call.ret.rows[i].fwd_return, WeightedReturn(d, d + 1, Len(HeldOn(d))))

-----------------------------------------------------------------------------
(* performance/turnover.py: get_turnover_stats *)

TurnoverStatsComputed == call.fn = "get_turnover_stats"

\* C18: for a weight history with fewer dates than the 252-day window
\* get_turnover_stats returns a Mean, a Min and a Max Turnover that are not
\* null, with Min <= Mean <= Max.
C18_StatsOfShortHistory ==
    (TurnoverStatsComputed /\ Cardinality(DatesOf(call.args.weights)) < RollingWindow) =>
        /\ Returned
        /\ \A name \in DOMAIN call.ret : IsNum(call.ret[name])
        /\ ~FLess(call.ret["Mean Turnover"], call.ret["Min Turnover"])
        /\ ~FLess(call.ret["Max Turnover"], call.ret["Mean Turnover"])

-----------------------------------------------------------------------------
(* research/quantile_portfolios.py: beta_scale_ports *)

BetaScaled == call.fn = "beta_scale_ports"

\* the same float, null or infinity
SameCell(a, b) ==
    IF IsNum(a) /\ IsNum(b) THEN FEq(a, b)
    ELSE a.kind = b.kind /\ (a.kind = "inf" => a.num = b.num)

\* C19: beta_scale_ports replaces every column whose name starts with p_,
\* and the column named spread, by its beta-scaled version, and leaves
\* every other column as it was.
C19_PortfoliosAndSpreadScaled ==
    BetaScaled =>
        /\ Returned
        /\ call.ret.columns = call.args.df.columns
        /\ \A j \in 1..Len(call.ret.columns) : \A t \in 1..Len(call.ret.index) :
              LET col == call.ret.columns[j]
              IN  IF startswith_p(col) \/ col = "spread"
                  THEN SameCell(call.ret.values[t][j],
                                beta_scaled(call.args.df, col, call.args.market_col,
                                            call.args.target_beta, call.args.lookback)[t])
                  ELSE SameCell(call.ret.values[t][j], call.args.df.values[t][j])

-----------------------------------------------------------------------------
(* research/ff_regression.py: run_ff_regression *)

FFRegressionRun == call.fn = "run_ff_regression"

\* the dates of the factor table of the store
FactorDates == DatesOf(fama_french_src)

\* the row of the regression data holds 100 times the realizations of date e
PairedWith(row, e) ==
    \A c \in 1..Len(FamaFrenchColumns) : FEq(row.values[c], Num(100 * FamaFrenchOf(c, e)))

\* C20: in run_ff_regression the portfolio return of date d is paired with
\* the factor realizations (and rf) of the date before d in the factor
\* table, never with those of d or of a later date.
C20_PairedWithPreviousDate ==
    FFRegressionRun =>
        \A i \in 1..Len(call.ret.data) :
            LET row == call.ret.data[i]
                earlier == {e \in FactorDates : e < row.date}
            IN  /\ earlier # {} => PairedWith(row, max(earlier))
                /\ \A e \in FactorDates : e >= row.date => ~PairedWith(row, e)

\* the method names that are pearson or rank in some letter case
PearsonOrRank == {"pearson", "Pearson", "rank", "RANK"}

\* C21: generate_alpha_ics raises ValueError, and returns nothing, for every
\* method that lower-cased is neither 'pearson' nor 'rank'; for 'pearson'
\* and 'rank' in any letter case it raises no such error.
C21_ValueErrorForOtherMethods ==
    ICsGenerated =>
        IF call.args.method \in PearsonOrRank
        THEN Returned
        ELSE call.ret = Raise("ValueError")

\* an upper-case name of another method, with frames that have rows to pair
C21_Witness ==
    /\ ICsGenerated
    /\ call.args.method = "SPEARMAN"
    /\ call.ret = Raise("ValueError")
    /\ \E a \in AssetIds : \E d \in Dates : HasPair(a, d)

-----------------------------------------------------------------------------
(* research/__init__.py: the import of the package *)

ResearchImported == call.fn = "from sf_quant.research import"

\* C22: every name research/__init__.py imports and lists in __all__ is bound
\* under that name by the submodule it is imported from, and so the import of
\* the package raises nothing and gives the client the names it asked for.
C22_ImportedNamesDefined ==
    ResearchImported =>
        /\ \A i \in 1..Len(import_statements) :
              Range(import_statements[i].names) \subseteq submodules[import_statements[i].module]
        /\ Range(__all__) \subseteq
              UNION {Range(import_statements[i].names) : i \in 1..Len(import_statements)}
        /\ Returned
        /\ call.ret.names = call.args.names

-----------------------------------------------------------------------------
(* data/covariance_matrix.py: the exposure and factor covariance stages *)

ExposuresBuilt == call.fn = "_construct_factor_exposure_matrix"

FactorCovarianceBuilt == call.fn = "_construct_factor_covariance_matrix"

\* C23: _construct_factor_exposure_matrix returns only rows of requested
\* assets, one for each requested asset the exposure table has, ascending by
\* asset id; a cell is 0.0 where the table holds a null and the table's value
\* everywhere else.
C23_RequestedRowsAscendingNullsZero ==
    ExposuresBuilt =>
        /\ Returned
        /\ Range(call.ret.index) \subseteq Range(call.barrids)
        /\ Range(call.ret.index) = Range(call.barrids) \cap Range(exposures_src.index)
        /\ IsAscending(call.ret.index)
        /\ Range(call.ret.columns) = FactorIds
        /\ \A a \in Range(call.ret.index) : \A f \in FactorIds :
              CellAt(call.ret, a, f) =
                 IF CellAt(exposures_src, a, f).kind = "null" THEN Num(0)
                 ELSE CellAt(exposures_src, a, f)

\* a table with rows out of order and a null, its assets requested in
\* another order than ascending
C23_Witness ==
    /\ ExposuresBuilt
    /\ Returned
    /\ Len(call.ret.index) > 1
    /\ ~IsAscending(exposures_src.index)
    /\ ~IsAscending(call.barrids)
    /\ \E a \in Range(call.barrids) : \E f \in FactorIds :
          /\ CellAt(exposures_src, a, f) = Null
          /\ CellAt(call.ret, a, f) = Num(0)
    /\ \E a \in Range(call.barrids) : \E f \in FactorIds :
          /\ IsNum(CellAt(exposures_src, a, f))
          /\ CellAt(call.ret, a, f).num # 0

\* C24: the frame _construct_factor_covariance_matrix returns has the factor
\* ids of the source as its row labels (factor_1) and as its column labels,
\* the two the same list, ascending.
C24_LabelsSameListAscending ==
    FactorCovarianceBuilt =>
        /\ Returned
        /\ call.ret.key = "factor_1"
        /\ call.ret.index = call.ret.columns
        /\ IsAscending(call.ret.index)
        /\ Range(call.ret.index) = Range(covariances_src.index)

\* a source whose rows and whose columns are in two orders, neither ascending
C24_Witness ==
    /\ FactorCovarianceBuilt
    /\ Returned
    /\ ~IsAscending(covariances_src.index)
    /\ ~IsAscending(covariances_src.columns)
    /\ Len(call.ret.index) = NumFactors
    /\ call.ret.index = factors
    /\ call.ret.columns = factors

-----------------------------------------------------------------------------
(* data/covariance_matrix.py: the specific risk of assets outside the      *)
(* universe                                                                *)

OutsideUniverse(a) ==
    HasRow(assets_src, a) /\ CellAt(assets_src, a, "in_universe") = Bool(FALSE)

\* the row of the returned frame for asset a: the last entry of the list
\* that names it
RowOf(a) ==
    CHOOSE i \in 1..Len(call.barrids) :
        /\ call.barrids[i] = a
        /\ \A j \in 1..Len(call.barrids) : call.barrids[j] = a => j <= i

ColumnOf(a) == CHOOSE j \in 1..Len(call.ret.columns) : call.ret.columns[j] = a

\* C25: a requested asset that is outside the universe on the date and has a
\* specific risk in the asset source has the square of that specific risk,
\* not 0, in its row and column of the frame
\* _construct_specific_risk_matrix returns.
C25_OutsideUniverseKeepsSpecificRisk ==
    SpecificRiskBuilt =>
        \A a \in Range(call.barrids) :
            (OutsideUniverse(a) /\ IsNum(CellAt(assets_src, a, "specific_risk"))) =>
                /\ Returned
                /\ FEq(call.ret.values[RowOf(a)][ColumnOf(a)], SpecificVariance(a))
                /\ FLess(Num(0), call.ret.values[RowOf(a)][ColumnOf(a)])

\* two requested assets with a specific risk, one inside the universe and
\* one outside
C25_Witness ==
    /\ SpecificRiskBuilt /\ Returned
    /\ \E a \in Range(call.barrids) : \E b \in Range(call.barrids) :
          /\ OutsideUniverse(a) /\ ~OutsideUniverse(b) /\ HasRow(assets_src, b)
          /\ call.ret.values[RowOf(a)][ColumnOf(a)]
                = Num(SpecificRiskOf(a) * SpecificRiskOf(a))
          /\ call.ret.values[RowOf(b)][ColumnOf(b)]
                = Num(SpecificRiskOf(b) * SpecificRiskOf(b))

-----------------------------------------------------------------------------
(* performance/ics.py: the observations generate_alpha_ics leaves out *)

\* the rows of frame df of asset a on date d
RowsOf(df, a, d) == {i \in 1..Len(df) : df[i].barrid = a /\ df[i].date = d}

\* the lagged alpha of asset a on date d: the alpha of the row of a that
\* comes before its row of date d, null when there is none
LaggedAlpha(a, d) ==
    LET alphas == call.args.alphas
        earlier == {i \in 1..Len(alphas) : alphas[i].barrid = a /\ alphas[i].date < d}
    IN  IF earlier = {} THEN Null
        ELSE alphas[CHOOSE i \in earlier :
                       \A j \in earlier : alphas[j].date <= alphas[i].date].alpha

\* the observations of date d: the assets with a row of alphas and a row of
\* rets on d
Observations(d) ==
    {a \in AssetIds : RowsOf(call.args.alphas, a, d) # {} /\ RowsOf(call.args.rets, a, d) # {}}

\* the observations of date d that remain: lagged alpha and return are
\* numbers
Remaining(d) ==
    {a \in Observations(d) :
        /\ IsNum(LaggedAlpha(a, d))
        /\ \A i \in RowsOf(call.args.rets, a, d) : IsNum(call.args.rets[i]["return"])}

\* C26: generate_alpha_ics leaves out every observation whose lagged alpha
\* or whose return is null, NaN or infinite: the output has a row exactly
\* for the dates on which an observation remains, its n is the number of
\* remaining observations of the date, and the correlation is taken over n
\* pairs of numbers.
C26_MissingObservationsExcluded ==
    (ICsGenerated /\ Returned) =>
        /\ \A d \in Dates :
              Cardinality({row \in call.ret.rows : row.date = d})
                 = IF Remaining(d) = {} THEN 0 ELSE 1
        /\ \A row \in call.ret.rows :
              /\ row.n = Cardinality(Remaining(row.date))
              /\ \A k \in 1..2 :
                    /\ Len(row.ic.corr[k]) = row.n
                    /\ \A i \in 1..row.n : IsNum(row.ic.corr[k][i])

\* a date with three kinds of observation: one left out for its lagged
\* alpha, one left out for its return, one that remains and is counted
C26_Witness ==
    /\ ICsGenerated /\ Returned
    /\ \E d \in Dates : \E row \in call.ret.rows :
          /\ row.date = d
          /\ row.n = 1
          /\ Cardinality(Observations(d)) = 2
          /\ \E a \in Observations(d) : ~IsNum(LaggedAlpha(a, d))
    /\ \E d \in Dates : \E a \in Observations(d) :
          /\ IsNum(LaggedAlpha(a, d))
          /\ \E i \in RowsOf(call.args.rets, a, d) : ~IsNum(call.args.rets[i]["return"])
          /\ \A row \in call.ret.rows : row.date = d => row.n < Cardinality(Observations(d))

====
